---------------------------- MODULE Spec2Model ----------------------------
(***************************************************************************)
(* Conway's Game of Life, fixed-grid engine (src/game-of-life.js), with    *)
(* its RLE decoder (loadRle, rleFiller), randomFiller and constructor,     *)
(* the sparse engine of modules/gameV2.js (src/unnamed/part_000) and the   *)
(* page glue of src/main.js.  Each component has its own variable and its  *)
(* own specification; the others then stay at Unused.                      *)
(*                                                                         *)
(* The engine owns a width x height grid of cells (dead = 0, alive = 1),   *)
(* answers coordinate queries (cell), computes one generation (update),    *)
(* and drives a run loop with setTimeout + requestAnimationFrame           *)
(* (start / stop).                                                         *)
(*                                                                         *)
(* JavaScript values that are not cell states are encoded as negative      *)
(* integers so that they can flow through the same arithmetic as in the    *)
(* source: undefined (an out-of-range array read, an unset #handler),      *)
(* NaN (a sum containing undefined) and TypeError (a property read on      *)
(* undefined, which aborts the running call).                              *)
(*                                                                         *)
(* Coordinates are integers; on integers Math.round(+i) (line 54) returns  *)
(* its argument and the NaN / Infinity test (lines 55-58) is false.        *)
(***************************************************************************)
EXTENDS Integers, Sequences, FiniteSets

(* ------------------------------ bounds -------------------------------- *)

\* Largest grid explored by the update() specification (SpecUpdate).
MaxWidth == 3
MaxHeight == 3
\* Largest grid explored by the run-loop and query specifications
\* (Spec, SpecCell).
MaxRunWidth == 2
MaxRunHeight == 2
\* The constructor's filler makes at most MaxSeed cells Alive.
MaxSeed == 3
\* cell(i, j) is queried for i, j in -MaxCoord .. MaxCoord.
MaxCoord == 2
\* Timer ids handed out by setTimeout are 1 .. MaxTimers.
MaxTimers == 2
\* The generation counter saturates at MaxGeneration.
MaxGeneration == 3
\* The counter of consecutive start() calls saturates at MaxStarts.
MaxStarts == 2
\* An RLE header declares x and y in 0 .. MaxPattern.
MaxPattern == 2
\* The decoder's run count stays within 0 .. MaxRun.
MaxRun == 2
\* The decoder's cursor (x, y) stays within 0 .. MaxCursor.
MaxCursor == 2
\* An RLE filler is called by engines of 1 .. MaxGame columns and rows.
MaxGame == 2

(* ----------------------------- JS values ------------------------------ *)

dead == 0
alive == 1
undefined == 0 - 1
NaN == 0 - 2
TypeError == 0 - 3

VARIABLES
    width,      \* #width
    height,     \* #height
    torus,      \* #torus
    grid,       \* #grid: grid[i][j], i in 0..width-1, j in 0..height-1
    handler,    \* #handler: undefined or the id of the last timer set
    timers,     \* pending setTimeout callbacks, in firing order (ids)
    frames,     \* queued requestAnimationFrame callbacks, in firing order
    nextId,     \* the id the next setTimeout returns
    count,      \* the value returned by the last completed update()
    thrown,     \* TRUE iff the last operation ended in an exception
    answer,     \* the last cell(i, j) query: <<i, j, returned value>>
    lastOp,     \* name of the last operation that ran
    seed,       \* history: the live cells the constructor seeded
    generation, \* history: number of completed update() calls (saturating)
    stopped,    \* history: stop() was called and start() not called since
    everStopped,\* history: stop() was called at least once
    starts,     \* history: number of start() calls since the last stop()
                \* call or step callback (saturating)
    rle,        \* loadRle: the decoder's locals while it reads a text
    ref,        \* history: the same text read as section 4.2 describes it
    fill,       \* rleFiller: the closure it returned and its last call
    ctor,       \* the last constructor call: arguments and outcome
    sparse,     \* the sparse-cell engine (gameV2)
    page        \* the page glue (main.js): its games and the current one

vars == <<width, height, torus, grid, handler, timers, frames, nextId,
          count, thrown, answer, lastOp, seed, generation, stopped,
          everStopped, starts, rle, ref, fill, ctor, sparse, page>>

\* The variables of the components other than the fixed-grid engine.
otherVars == <<rle, ref, fill, ctor, sparse, page>>

\* The value of a component's variable in a specification that does not
\* exercise the component.
Unused == "unused"

gridVars == <<width, height, torus>>
loopVars == <<handler, timers, frames, nextId>>
histVars == <<seed, stopped, everStopped, starts>>

(* ------------------------------ helpers ------------------------------- *)

\* JavaScript's % on integers: the result takes the sign of the dividend.
JsRem(a, n) == IF a >= 0 THEN a % n ELSE 0 - ((0 - a) % n)

Columns == 0 .. (width - 1)
Rows == 0 .. (height - 1)
Cells == Columns \X Rows

\* #createGrid(filler): a fresh grid, every cell from filler(i, j); the
\* filler is given as the function <<i, j>> |-> filler(i, j).
createGrid(filler) ==
    [i \in Columns |->
        [j \in Rows |-> IF filler[<<i, j>>] THEN alive ELSE dead]]

\* Lines 59-62: the index cell() computes in toroidal mode.
wrap(i, n) == IF i < 0 THEN n + JsRem(i, n) ELSE JsRem(i, n)

\* cell(i, j) for integer i, j: a cell state, or undefined when the row
\* index is out of range, or TypeError when the column array is missing.
cell(i, j) ==
    IF torus
    THEN LET wi == wrap(i, width)
             wj == wrap(j, height)
         IN  IF wi \notin Columns THEN TypeError
             ELSE IF wj \notin Rows THEN undefined
             ELSE grid[wi][wj]
    ELSE IF i < 0 \/ width <= i \/ j < 0 \/ height <= j
         THEN dead
         ELSE grid[i][j]

\* #neighbours with a slip in the last read: (mid, bottom) is read twice
\* and (right, bottom) never.
neighbourReadsSlip(i, j) ==
    LET left == i - 1
        mid == i
        right == i + 1
        top == j - 1
        center == j
        bottom == j + 1
    IN  << cell(left, top), cell(mid, top), cell(right, top),
           cell(left, center), cell(right, center),
           cell(left, bottom), cell(mid, bottom), cell(mid, bottom) >>

\* The eight cell() reads of #neighbours, in source order.
neighbourReads(i, j) ==
    LET left == i - 1
        mid == i
        right == i + 1
        top == j - 1
        center == j
        bottom == j + 1
    IN  << cell(left, top), cell(mid, top), cell(right, top),
           cell(left, center), cell(right, center),
           cell(left, bottom), cell(mid, bottom), cell(right, bottom) >>

\* #neighbours(i, j): the sum of the eight reads; a read that throws aborts
\* the call, a read that returns undefined makes the sum NaN.
neighbours(i, j) ==
    LET r == neighbourReads(i, j)
    IN  IF \E k \in 1..8 : r[k] = TypeError THEN TypeError
        ELSE IF \E k \in 1..8 : r[k] = undefined THEN NaN
        ELSE r[1] + r[2] + r[3] + r[4] + r[5] + r[6] + r[7] + r[8]

\* The filler update() passes to #createGrid (lines 92-109).
rule(i, j) ==
    LET n == neighbours(i, j)
    IN  CASE grid[i][j] = alive -> (n = 2 \/ n = 3)
          [] grid[i][j] = dead -> (n = 3)
          [] OTHER -> FALSE

\* update() throws when any neighbour read throws.
updateThrows == \E c \in Cells : neighbours(c[1], c[2]) = TypeError

\* result: incremented once for every cell the filler returns true for.
updateResult == Cardinality({c \in Cells : rule(c[1], c[2])})

\* the grid update() installs
updateGrid == createGrid([c \in Cells |-> rule(c[1], c[2])])

Bump(g) == IF g < MaxGeneration THEN g + 1 ELSE g

(* ------------------------------- Init --------------------------------- *)

\* The state after `new GameOfLife(canvas, filler, {torus})` for a canvas
\* that yields a w x h grid, w <= maxW, h <= maxH, and any filler that
\* returns true for at most MaxSeed cells.
Constructed(maxW, maxH) ==
    /\ width \in 1..maxW
    /\ height \in 1..maxH
    /\ torus \in BOOLEAN
    /\ seed \in {s \in SUBSET Cells : Cardinality(s) <= MaxSeed}
    /\ grid = createGrid([c \in Cells |-> c \in seed])
    /\ handler = undefined
    /\ timers = << >>
    /\ frames = << "draw" >>
    /\ nextId = 1
    /\ count = 0
    /\ thrown = FALSE
    /\ answer = << >>
    /\ lastOp = "new"
    /\ generation = 0
    /\ stopped = FALSE
    /\ everStopped = FALSE
    /\ starts = 0

\* A fixed-grid engine has been constructed and nothing else is in use.
EngineOnly(maxW, maxH) ==
    /\ Constructed(maxW, maxH)
    /\ rle = Unused
    /\ ref = Unused
    /\ fill = Unused
    /\ ctor = Unused
    /\ sparse = Unused
    /\ page = Unused

Init == EngineOnly(MaxRunWidth, MaxRunHeight)

InitGrid == EngineOnly(MaxWidth, MaxHeight)

(* ------------------------------ actions ------------------------------- *)

\* A caller invokes cell(i, j).
Cell ==
    \E i \in (0 - MaxCoord) .. MaxCoord, j \in (0 - MaxCoord) .. MaxCoord :
        /\ answer' = <<i, j, cell(i, j)>>
        /\ thrown' = (cell(i, j) = TypeError)
        /\ lastOp' = "cell"
        /\ UNCHANGED <<gridVars, grid, loopVars, count, histVars, generation>>
        /\ UNCHANGED otherVars

\* A caller invokes update().
Update ==
    /\ lastOp' = "update"
    /\ IF updateThrows
       THEN /\ thrown' = TRUE
            /\ UNCHANGED <<grid, count, generation>>
       ELSE /\ thrown' = FALSE
            /\ grid' = updateGrid
            /\ count' = updateResult
            /\ generation' = Bump(generation)
    /\ UNCHANGED <<gridVars, loopVars, answer, histVars>>
    /\ UNCHANGED otherVars

\* clearTimeout(id): the timer with that id, if still pending, never fires.
clearTimeout(ts, id) == SelectSeq(ts, LAMBDA t : t # id)

\* The body of start() (lines 129-140) on a loop state: nothing when
\* #handler is set, else a new timer whose id is stored in #handler.
start(h, ts, n) ==
    IF h # undefined
    THEN [handler |-> h, timers |-> ts, nextId |-> n]
    ELSE [handler |-> n, timers |-> Append(ts, n), nextId |-> n + 1]

\* The body of stop() (lines 144-147): clear the timer #handler names when
\* #handler is truthy, then unset #handler.
stop(h, ts) ==
    [handler |-> undefined,
     timers |-> IF h # undefined /\ h # 0 THEN clearTimeout(ts, h) ELSE ts]

\* A caller invokes start().
Start ==
    /\ handler = undefined => nextId <= MaxTimers
    /\ LET s == start(handler, timers, nextId)
       IN  /\ handler' = s.handler
           /\ timers' = s.timers
           /\ nextId' = s.nextId
    /\ lastOp' = "start"
    /\ thrown' = FALSE
    /\ stopped' = FALSE
    /\ starts' = IF starts < MaxStarts THEN starts + 1 ELSE starts
    /\ UNCHANGED <<gridVars, grid, frames, count, answer, seed, generation,
                   everStopped>>
    /\ UNCHANGED otherVars

\* A caller invokes stop().
Stop ==
    /\ LET s == stop(handler, timers)
       IN  /\ handler' = s.handler
           /\ timers' = s.timers
    /\ lastOp' = "stop"
    /\ thrown' = FALSE
    /\ stopped' = TRUE
    /\ everStopped' = TRUE
    /\ starts' = 0
    /\ UNCHANGED <<gridVars, grid, frames, nextId, count, answer, seed,
                   generation>>
    /\ UNCHANGED otherVars

\* The oldest pending timer fires: its callback (lines 130-140) only
\* requests an animation frame for the step; #handler keeps the timer's id.
TimerFires ==
    /\ timers # << >>
    /\ timers' = Tail(timers)
    /\ frames' = Append(frames, "step")
    /\ lastOp' = "timer"
    /\ thrown' = FALSE
    /\ UNCHANGED <<gridVars, grid, handler, nextId, count, answer, histVars,
                   generation>>
    /\ UNCHANGED otherVars

\* The browser runs the constructor's animation-frame callback (line 29):
\* draw() paints the canvas and changes nothing in the engine.
DrawFrame ==
    /\ frames # << >>
    /\ Head(frames) = "draw"
    /\ frames' = Tail(frames)
    /\ lastOp' = "draw"
    /\ thrown' = FALSE
    /\ UNCHANGED <<gridVars, grid, handler, timers, nextId, count, answer,
                   histVars, generation>>
    /\ UNCHANGED otherVars

\* The browser runs a step's animation-frame callback (lines 131-139):
\* draw(), update(), unset #handler, and start() again when cells remain.
\* When update() throws the callback ends there.
StepFrame ==
    /\ frames # << >>
    /\ Head(frames) = "step"
    /\ frames' = Tail(frames)
    /\ lastOp' = "step"
    /\ starts' = 0
    /\ IF updateThrows
       THEN /\ thrown' = TRUE
            /\ UNCHANGED <<grid, count, generation, handler, timers, nextId>>
       ELSE /\ thrown' = FALSE
            /\ grid' = updateGrid
            /\ count' = updateResult
            /\ generation' = Bump(generation)
            /\ IF updateResult > 0
               THEN /\ nextId <= MaxTimers
                    /\ LET s == start(undefined, timers, nextId)
                       IN  /\ handler' = s.handler
                           /\ timers' = s.timers
                           /\ nextId' = s.nextId
               ELSE /\ handler' = undefined
                    /\ UNCHANGED <<timers, nextId>>
    /\ UNCHANGED <<gridVars, answer, seed, stopped, everStopped>>
    /\ UNCHANGED otherVars

(* ---------------------------- RLE decoder ----------------------------- *)

\* One fixed engine, for the specifications that do not run it.
IdleEngine == Constructed(1, 1) /\ ~torus /\ seed = {}

engineVars == <<width, height, torus, grid, handler, timers, frames, nextId,
                count, thrown, answer, lastOp, seed, generation, stopped,
                everStopped, starts>>

DigitChars == {"0", "1", "2", "3", "4", "5", "6", "7", "8", "9"}

\* Number(char) for a digit character (line 186).
Number(ch) ==
    CASE ch = "0" -> 0 [] ch = "1" -> 1 [] ch = "2" -> 2 [] ch = "3" -> 3
      [] ch = "4" -> 4 [] ch = "5" -> 5 [] ch = "6" -> 6 [] ch = "7" -> 7
      [] ch = "8" -> 8 [] ch = "9" -> 9

\* The characters a text is made of: newline, a blank (space, \r, \t),
\* '#', the digits, the tags, and "x" for any other character.
Chars == {"\n", " ", "#", "o", "b", "$", "!", "x"} \cup DigitChars

\* Lines 162-167: height rows of width dead cells.  Rows and grids are
\* sequences: cell (row y, column x) is grid[y + 1][x + 1].
newPattern(w, h) == [r \in 1..h |-> [c \in 1..w |-> dead]]

\* A decoder that marks only the first cell of a run.
writeAliveOnce(row, x, n) ==
    LET len == IF Len(row) > x + 1 THEN Len(row) ELSE x + 1
    IN  [k \in 1..len |->
            IF k = x + 1 THEN alive
            ELSE IF k <= Len(row) THEN row[k]
            ELSE undefined]

\* row[x] = alive ... row[x + n - 1] = alive on a JavaScript array: a write
\* past the end lengthens the array and leaves holes (undefined) between.
writeAlive(row, x, n) ==
    LET len == IF Len(row) > x + n THEN Len(row) ELSE x + n
    IN  [k \in 1..len |->
            IF x < k /\ k <= x + n THEN alive
            ELSE IF k <= Len(row) THEN row[k]
            ELSE undefined]

\* loadRle is called: nothing read yet.
rleStart ==
    [phase |-> "header", grid |-> << >>, width |-> 0, height |-> 0,
     runCount |-> 0, x |-> 0, y |-> 0, lineStart |-> TRUE, comment |-> FALSE]

\* loadRle is left without a grid (an exception, or the end of the text):
\* its locals are gone and only the way it ended remains.
rleEnded(how) == [rleStart EXCEPT !.phase = how]

\* Lines 189-196: the writes of tag 'o'.  grid[y] is undefined when y is not
\* a row of the grid, and writing to it throws TypeError.
markAlive(st) ==
    IF st.y + 1 \notin DOMAIN st.grid
    THEN rleEnded("TypeError")
    ELSE IF st.runCount = 0
         THEN [st EXCEPT !.grid[st.y + 1] = writeAlive(@, st.x, 1)]
         ELSE [st EXCEPT !.grid[st.y + 1] = writeAlive(@, st.x, st.runCount)]

\* Lines 198-199: the cursor advance shared by 'o' and 'b'.
advance(st) ==
    [st EXCEPT !.x = @ + (IF st.runCount > 0 THEN st.runCount ELSE 1),
               !.runCount = 0]

\* Lines 153-156 and 170-209: loadRle reads one character of the text.
\* st.lineStart: only blanks were read on this line (line.trim());
\* st.comment: the line started with '#' and is skipped.
rleStep(st, ch) ==
    IF ch = "\n" THEN [st EXCEPT !.lineStart = TRUE, !.comment = FALSE]
    ELSE IF st.comment \/ ch = " " THEN st
    ELSE IF st.lineStart /\ ch = "#" THEN [st EXCEPT !.comment = TRUE]
    ELSE LET t == [st EXCEPT !.lineStart = FALSE]
         IN  CASE ch \in DigitChars ->
                    [t EXCEPT !.runCount = @ * 10 + Number(ch)]
               [] ch = "o" ->
                    LET m == markAlive(t)
                    IN  IF m.phase = "TypeError" THEN m ELSE advance(m)
               [] ch = "b" -> advance(t)
               [] ch = "$" -> [t EXCEPT !.y = @ + 1, !.x = 0]
               [] ch = "!" -> [rleEnded("returned") EXCEPT !.grid = t.grid,
                                  !.width = t.width, !.height = t.height]
               [] OTHER -> rleEnded("SyntaxError")

\* The reading of section 4.2, kept next to the decoder's: the count is the
\* digits since the last tag or '$', and live is what the 'o' runs cover;
\* inside: every 'o' run so far stayed inside the declared bounds;
\* carried: digits were followed by '$'; eof: the phase in which the text
\* ended, "no" while it has not.
refStart ==
    [count |-> 0, x |-> 0, y |-> 0, live |-> {}, inside |-> TRUE,
     carried |-> FALSE, eof |-> "no"]

refRun(r) == IF r.count > 0 THEN r.count ELSE 1

refStep(st, r, ch) ==
    IF st.comment \/ ch \in {"\n", " "} \/ (st.lineStart /\ ch = "#") THEN r
    ELSE CASE ch \in DigitChars -> [r EXCEPT !.count = @ * 10 + Number(ch)]
           [] ch = "o" ->
                [r EXCEPT !.live = @ \cup {<<r.y, c>> : c \in r.x .. (r.x + refRun(r) - 1)},
                          !.inside = @ /\ r.y < st.height /\ r.x + refRun(r) <= st.width,
                          !.x = @ + refRun(r),
                          !.count = 0]
           [] ch = "b" -> [r EXCEPT !.x = @ + refRun(r), !.count = 0]
           [] ch = "$" -> [r EXCEPT !.y = @ + 1, !.x = 0, !.count = 0,
                                    !.carried = @ \/ r.count > 0]
           [] ch = "!" -> [r EXCEPT !.x = 0, !.y = 0, !.count = 0]
           [] OTHER -> r

rleVars == <<rle, ref>>

\* The loop of lines 152-211 over a whole body, the header already read.
RECURSIVE loadBody(_, _)
loadBody(st, text) ==
    IF text = << >> \/ st.phase # "body" THEN st
    ELSE loadBody(rleStep(st, Head(text)), Tail(text))

\* loadRle on a text with header x = w, y = h and the given body.
loadRle(w, h, body) ==
    LET st == loadBody([rleStart EXCEPT !.phase = "body", !.grid = newPattern(w, h),
                                        !.width = w, !.height = h], body)
    IN  IF st.phase = "body" THEN rleEnded("undefined") ELSE st

\* The first line that is neither blank nor a comment matches the header
\* pattern (line 158) and declares x = w, y = h.
ReadHeader ==
    /\ rle.phase = "header" /\ ~rle.comment
    /\ \E w \in 0..MaxPattern, h \in 0..MaxPattern :
          rle' = [rle EXCEPT !.phase = "body", !.grid = newPattern(w, h),
                             !.width = w, !.height = h, !.lineStart = TRUE]
    /\ UNCHANGED <<engineVars, ref, fill, ctor, sparse, page>>

\* The first such line does not match: SyntaxError('Invalid header!').
BadHeader ==
    /\ rle.phase = "header" /\ ~rle.comment
    /\ rle' = rleEnded("SyntaxError")
    /\ UNCHANGED <<engineVars, ref, fill, ctor, sparse, page>>

\* The next character of the text is read: a blank, newline or '#' before
\* the header, any character after it.
ReadChar ==
    /\ rle.phase \in {"header", "body"}
    /\ \E ch \in Chars :
          /\ rle.phase = "header" => (rle.comment \/ ch \in {"\n", " ", "#"})
          /\ ch \in DigitChars => Number(ch) <= MaxRun
          /\ LET n == rleStep(rle, ch)
             IN  /\ n.runCount <= MaxRun
                 /\ n.x <= MaxCursor
                 /\ n.y <= MaxCursor
                 /\ rle' = n
                 /\ ref' = IF n.phase \in {"TypeError", "SyntaxError"}
                            THEN refStart
                            ELSE refStep(rle, ref, ch)
    /\ UNCHANGED <<engineVars, fill, ctor, sparse, page>>

\* The text ends: the loop of line 153 is left and loadRle returns nothing.
EndOfInput ==
    /\ rle.phase \in {"header", "body"}
    /\ rle' = rleEnded("undefined")
    /\ ref' = [refStart EXCEPT !.eof = rle.phase]
    /\ UNCHANGED <<engineVars, fill, ctor, sparse, page>>

(* ----------------------------- rleFiller ------------------------------ *)

\* Lines 216-220: rleFiller takes what loadRle returned.  Reading .length
\* of undefined throws TypeError; tranX and tranY start undefined, written
\* << >>, and a computed offset t is written <<t>>.
rleFiller(st) ==
    IF st.phase = "undefined"
    THEN [status |-> "TypeError", grid |-> << >>, width |-> 0, height |-> 0,
          tranX |-> << >>, tranY |-> << >>, call |-> << >>, first |-> << >>]
    ELSE [status |-> "ok", grid |-> st.grid,
          height |-> Len(st.grid),
          width |-> IF Len(st.grid) > 0 THEN Len(st.grid[1]) ELSE 0,
          tranX |-> << >>, tranY |-> << >>, call |-> << >>, first |-> << >>]

\* !t for an offset: true when it is undefined or 0.
falsy(t) == t = << >> \/ t[1] = 0

\* Lines 222-223: the offset after a call by a game of the given size.
translate(t, gameSize, patternSize) ==
    IF falsy(t) THEN << (gameSize - patternSize) \div 2 >> ELSE t

\* Lines 224-227: the value the predicate returns for translated (x, y).
patternAlive(f, x, y) ==
    /\ 0 <= x /\ x < f.width
    /\ 0 <= y /\ y < f.height
    /\ x + 1 \in DOMAIN f.grid[y + 1]
    /\ f.grid[y + 1][x + 1] = alive

\* Lines 221-228: one call of the predicate with (x, y, game).
fillerCall(f, x, y, gw, gh) ==
    LET tx == translate(f.tranX, gw, f.width)
        ty == translate(f.tranY, gh, f.height)
    IN  [f EXCEPT !.tranX = tx, !.tranY = ty,
                  !.call = <<x, y, gw, gh, patternAlive(f, x - tx[1], y - ty[1])>>,
                  !.first = IF f.first = << >> THEN <<tx[1], ty[1]>> ELSE @]

\* rleFiller(text) proceeds once loadRle has returned.
MakeFiller ==
    /\ rle.phase \in {"returned", "undefined"}
    /\ fill.status = "none"
    /\ fill' = rleFiller(rle)
    /\ UNCHANGED <<engineVars, rle, ref, ctor, sparse, page>>

\* A game of gw x gh cells calls the predicate for one of its cells.
CallFiller ==
    /\ fill.status = "ok"
    /\ \E gw \in 1..MaxGame, gh \in 1..MaxGame :
          \E x \in 0..(gw - 1), y \in 0..(gh - 1) :
              fill' = fillerCall(fill, x, y, gw, gh)
    /\ UNCHANGED <<engineVars, rle, ref, ctor, sparse, page>>

InitRle ==
    /\ IdleEngine
    /\ rle = rleStart
    /\ ref = refStart
    /\ fill = [status |-> "none", grid |-> << >>, width |-> 0, height |-> 0,
               tranX |-> << >>, tranY |-> << >>, call |-> << >>,
               first |-> << >>]
    /\ ctor = Unused
    /\ sparse = Unused
    /\ page = Unused

(* ---------------------- randomFiller, constructor --------------------- *)

\* Numbers between 0 and 1 (a percentage, a value of Math.random()) are
\* counted in units of 1 / RandomUnits.
RandomUnits == 2

\* The canvas is up to MaxCanvas wide and high, a cell up to MaxSize.
MaxCanvas == 2
MaxSize == 2

\* Number(percentage): NaN, or k / RandomUnits for k from below 0 to
\* above 1.
Percentages == {NaN} \cup ((0 - 1) .. (RandomUnits + 1))

\* Math.random(): d / RandomUnits, at least 0 and below 1.
Randoms == 0 .. (RandomUnits - 1)

\* Line 233: the percentage is NaN, below 0 or above 1.
badPercentage(k) == k = NaN \/ k < 0 \/ RandomUnits < k

\* randomFiller(percentage): the filler, or the RangeError of line 234.
randomFiller(k) ==
    IF badPercentage(k)
    THEN [kind |-> "RangeError", percentage |-> k]
    ELSE [kind |-> "random", percentage |-> k]

\* A filler that also answers true when Math.random() equals the
\* percentage.
randomCallInclusive(f, d) == d <= f.percentage

\* Line 236: a call of the filler with Math.random() = d / RandomUnits.
randomCall(f, d) == d < f.percentage

\* The values of settings.size: numbers, NaN, the infinities, and a value
\* that is not a number.
Sizes ==
    [kind : {"number"}, value : (0 - 1) .. MaxSize]
        \cup [kind : {"NaN", "Infinity", "-Infinity", "string"}, value : {0}]

\* Line 17: typeof size !== 'number'.
notNumber(size) == size.kind = "string"

\* Line 19: isNaN(size) || ! isFinite(size) || size < 0.
badSize(size) ==
    \/ size.kind \in {"NaN", "Infinity", "-Infinity"}
    \/ size.kind = "number" /\ size.value < 0

\* The number Infinity, as a length.
Infinity == 0 - 4

\* Math.ceil(length / size) for a size that passed line 19 (lines 22-23):
\* a division by 0 yields Infinity, or NaN when the length is 0 too.
ceilDiv(length, size) ==
    IF size.value = 0
    THEN (IF length = 0 THEN NaN ELSE Infinity)
    ELSE (length + size.value - 1) \div size.value

\* #createGrid(filler) of a w x h engine (lines 36-51), draw[<<i, j>>] being
\* the value of Math.random() in the call filler(i, j).
newGrid(w, h, f, draw) ==
    [i \in 0 .. (w - 1) |->
        [j \in 0 .. (h - 1) |->
            IF f.kind = "random" /\ randomCall(f, draw[<<i, j>>])
            THEN alive ELSE dead]]

\* No engine: the constructor has not run, or it has thrown.
noEngine(how, f, size) ==
    [status |-> how, filler |-> f, size |-> size, canvas |-> << >>,
     width |-> 0, height |-> 0, grid |-> << >>]

\* new GameOfLife(canvas, filler, {size}) on a canvas of cw x ch.
constructor(cw, ch, f, size, draw) ==
    IF notNumber(size) THEN noEngine("TypeError: Invalid size!", f, size)
    ELSE IF badSize(size)
         THEN noEngine("RangeError: Size should be in (0, oo)!", f, size)
    ELSE IF ceilDiv(cw, size) \in {NaN, Infinity}
         THEN noEngine("RangeError: Invalid array length", f, size)
    ELSE [status |-> "constructed", filler |-> f, size |-> size,
          canvas |-> <<cw, ch>>,
          width |-> ceilDiv(cw, size), height |-> ceilDiv(ch, size),
          grid |-> newGrid(ceilDiv(cw, size), ceilDiv(ch, size), f, draw)]

noFiller == [kind |-> "undefined", percentage |-> 0]

noSize == [kind |-> "number", value |-> 1]

\* A caller invokes randomFiller(percentage).
RandomFiller ==
    /\ ctor.status = "none" /\ ctor.filler = noFiller
    /\ \E k \in Percentages : ctor' = [ctor EXCEPT !.filler = randomFiller(k)]
    /\ UNCHANGED <<engineVars, rle, ref, fill, sparse, page>>

\* A caller constructs an engine with the filler it has, or without one.
New ==
    /\ ctor.status = "none" /\ ctor.filler.kind # "RangeError"
    /\ \E cw \in 0..MaxCanvas, ch \in 0..MaxCanvas, size \in Sizes :
          \E draw \in [(0 .. (cw - 1)) \X (0 .. (ch - 1)) -> Randoms] :
              ctor' = constructor(cw, ch, ctor.filler, size, draw)
    /\ UNCHANGED <<engineVars, rle, ref, fill, sparse, page>>

InitCtor ==
    /\ IdleEngine
    /\ ctor = noEngine("none", noFiller, noSize)
    /\ rle = Unused
    /\ ref = Unused
    /\ fill = Unused
    /\ sparse = Unused
    /\ page = Unused

(* ------------------ sparse engine (modules/gameV2.js) ----------------- *)

\* The sparse engine shows up to MaxSparse x MaxSparse cells, is seeded
\* with at most MaxSparseSeed live cells and steps MaxSparseGeneration
\* times.
MaxSparse == 2
MaxSparseSeed == 3
MaxSparseGeneration == 2

Least(S) == CHOOSE m \in S : \A n \in S : m <= n
Greatest(S) == CHOOSE m \in S : \A n \in S : n <= m

\* #cell(x, y): #cells is the set of the coordinates <<x, y>> it holds.
cellV2(cells, x, y) == IF <<x, y>> \in cells THEN alive ELSE dead

\* #neighbours(x, y): the eight reads, summed.
neighboursV2(cells, x, y) ==
    cellV2(cells, x - 1, y - 1) + cellV2(cells, x, y - 1)
        + cellV2(cells, x + 1, y - 1) + cellV2(cells, x - 1, y)
        + cellV2(cells, x + 1, y) + cellV2(cells, x - 1, y + 1)
        + cellV2(cells, x, y + 1) + cellV2(cells, x + 1, y + 1)

\* #boundaries(): the visible grid, extended to the cells held (none while
\* the constructor runs).
boundaries(w, h, cells) ==
    [xmin |-> Least({0} \cup {c[1] : c \in cells}),
     xmax |-> Greatest({w - 1} \cup {c[1] : c \in cells}),
     ymin |-> Least({0} \cup {c[2] : c \in cells}),
     ymax |-> Greatest({h - 1} \cup {c[2] : c \in cells})]

\* The coordinates the loops of #create visit: x from xmin - 1 while
\* x < xmax + 1, y from ymin - 1 while y < ymax + 1.
visited(w, h, cells) ==
    LET bound == boundaries(w, h, cells)
    IN  {c \in ((bound.xmin - 1) .. bound.xmax) \X ((bound.ymin - 1) .. bound.ymax) :
            c[1] < bound.xmax + 1 /\ c[2] < bound.ymax + 1}

\* The filler update() passes to #create (lines 139-150).
ruleV2(cells, x, y) ==
    LET n == neighboursV2(cells, x, y)
    IN  IF cellV2(cells, x, y) = alive
        THEN (n = 2 \/ n = 3)
        ELSE IF cellV2(cells, x, y) = dead THEN n = 3
        ELSE FALSE

\* The cells after update(): #create with that filler.
updateV2(w, h, cells) ==
    {c \in visited(w, h, cells) : ruleV2(cells, c[1], c[2])}

\* new GameOfLife(canvas, filler) of gameV2.js on a canvas showing w x h
\* cells, the filler true exactly on live.
constructorV2(w, h, live) ==
    [width |-> w, height |-> h, cells |-> visited(w, h, {}) \cap live,
     handler |-> undefined]

\* The id setTimeout returns, a positive integer.  An engine of gameV2.js
\* has at most one timer pending, which #handler names.
timerId == 1

\* start() (lines 171-183): schedules the step unless one is scheduled.
startV2(e) ==
    IF e.handler # undefined THEN e ELSE [e EXCEPT !.handler = timerId]

\* stop() (lines 185-188).
stopV2(e) == [e EXCEPT !.handler = undefined]

\* The callback start() schedules (lines 174-181).
stepV2(e) ==
    LET cells == updateV2(e.width, e.height, e.cells)
        idle == [e EXCEPT !.cells = cells, !.handler = undefined]
    IN  IF Cardinality(cells) > 0 THEN startV2(idle) ELSE idle

\* A caller invokes update().
UpdateV2 ==
    /\ sparse.generation < MaxSparseGeneration
    /\ sparse' = [sparse EXCEPT
                     !.engine.cells = updateV2(sparse.engine.width,
                                               sparse.engine.height, @),
                     !.generation = @ + 1]
    /\ UNCHANGED <<engineVars, rle, ref, fill, ctor, page>>

InitSparse ==
    /\ IdleEngine
    /\ \E w \in 1..MaxSparse, h \in 1..MaxSparse :
          \E lives \in {q \in SUBSET visited(w, h, {}) :
                            Cardinality(q) <= MaxSparseSeed} :
              sparse = [engine |-> constructorV2(w, h, lives),
                        generation |-> 0]
    /\ rle = Unused
    /\ ref = Unused
    /\ fill = Unused
    /\ ctor = Unused
    /\ page = Unused

(* --------------------------- page (main.js) --------------------------- *)

\* The page creates up to MaxGames engines, each showing PageGrid x
\* PageGrid cells of its canvas.
MaxGames == 2
PageGrid == 1

\* game.running: the class of gameV2.js defines no such property.
running(e) == undefined

\* The test `if (v)` of JavaScript on the values used here.
truthy(v) == v \notin {undefined, NaN, 0}

\* Lines 6-14 and 25-32: the game is replaced by a new engine whose filler
\* is true on live, or the filler's construction throws.
replaceGame(pg, live, throws, event) ==
    LET restart == pg.game # 0 /\ truthy(running(pg.games[pg.game]))
        stopped0 == IF restart
                    THEN [pg EXCEPT !.games[pg.game] = stopV2(@)]
                    ELSE pg
        fresh == constructorV2(PageGrid, PageGrid, live)
        added == [stopped0 EXCEPT
                    !.games = Append(@, IF restart THEN startV2(fresh) ELSE fresh),
                    !.game = Len(pg.games) + 1]
    IN  [(IF throws THEN stopped0 ELSE added) EXCEPT !.last = event]

\* A click on Random (lines 5-15): randomFiller raises when the percentage
\* field is out of range.
RandomClick ==
    /\ Len(page.games) < MaxGames
    /\ \E live \in SUBSET visited(PageGrid, PageGrid, {}), throws \in BOOLEAN :
          page' = replaceGame(page, live, throws, "random")
    /\ UNCHANGED <<engineVars, rle, ref, fill, ctor, sparse>>

\* The chosen file has been read (lines 24-33): rleFiller raises on a text
\* it cannot decode.
FileLoad ==
    /\ Len(page.games) < MaxGames
    /\ \E live \in SUBSET visited(PageGrid, PageGrid, {}), throws \in BOOLEAN :
          page' = replaceGame(page, live, throws, "file")
    /\ UNCHANGED <<engineVars, rle, ref, fill, ctor, sparse>>

\* A click on Start (lines 37-39).
StartClick ==
    /\ page' = [(IF page.game # 0 /\ ~truthy(running(page.games[page.game]))
                 THEN [page EXCEPT !.games[page.game] = startV2(@)]
                 ELSE page) EXCEPT !.last = "start"]
    /\ UNCHANGED <<engineVars, rle, ref, fill, ctor, sparse>>

\* A click on Stop (lines 41-43).
StopClick ==
    /\ page' = [(IF page.game # 0 /\ truthy(running(page.games[page.game]))
                 THEN [page EXCEPT !.games[page.game] = stopV2(@)]
                 ELSE page) EXCEPT !.last = "stop"]
    /\ UNCHANGED <<engineVars, rle, ref, fill, ctor, sparse>>

\* The pending timer of one of the engines fires.
TimeoutV2 ==
    /\ \E g \in DOMAIN page.games :
          /\ page.games[g].handler # undefined
          /\ page' = [page EXCEPT !.games[g] = stepV2(@), !.last = "timer"]
    /\ UNCHANGED <<engineVars, rle, ref, fill, ctor, sparse>>

InitPage ==
    /\ IdleEngine
    /\ page = [games |-> << >>, game |-> 0, last |-> "load"]
    /\ rle = Unused
    /\ ref = Unused
    /\ fill = Unused
    /\ ctor = Unused
    /\ sparse = Unused

(* --------------------------- specifications --------------------------- *)

\* The run loop: start(), stop(), timers and animation frames.
Next == Start \/ Stop \/ TimerFires \/ DrawFrame \/ StepFrame

Spec == Init /\ [][Next]_vars

\* Direct calls of update() on every grid up to MaxWidth x MaxHeight.
NextUpdate == Update

SpecUpdate == InitGrid /\ [][NextUpdate]_vars

\* Direct calls of cell() and update() on every grid up to
\* MaxRunWidth x MaxRunHeight.
NextCell == Cell \/ Update

SpecCell == Init /\ [][NextCell]_vars

\* loadRle alone on every text within the bounds.
NextDecode == ReadHeader \/ BadHeader \/ ReadChar \/ EndOfInput

SpecDecode == InitRle /\ [][NextDecode]_vars

\* loadRle and rleFiller on every text within the bounds.
NextRle ==
    ReadHeader \/ BadHeader \/ ReadChar \/ EndOfInput \/ MakeFiller
        \/ CallFiller

SpecRle == InitRle /\ [][NextRle]_vars

(* ------------------------- reference notions -------------------------- *)

\* Floor-style modulo, result in 0 .. n-1.
FloorMod(a, n) == a % n

\* The live cells of grid g.
Live(g) == {c \in Cells : g[c[1]][c[2]] = alive}

\* The eight Moore offsets.
Offsets == ({0 - 1, 0, 1} \X {0 - 1, 0, 1}) \ {<<0, 0>>}

\* The state of coordinate (i, j) of grid g under the engine's topology:
\* wrapped with floor-style modulo on the torus, dead outside a bounded grid.
StateAt(g, i, j) ==
    IF torus
    THEN g[FloorMod(i, width)][FloorMod(j, height)]
    ELSE IF i \in Columns /\ j \in Rows THEN g[i][j] ELSE dead

\* Number of live Moore neighbours of (i, j) in grid g.
MooreLive(g, i, j) ==
    Cardinality({d \in Offsets : StateAt(g, i + d[1], j + d[2]) = alive})

\* The classic rule evaluated on grid g.
ClassicRule(g, i, j) ==
    \/ g[i][j] = alive /\ MooreLive(g, i, j) \in {2, 3}
    \/ g[i][j] = dead /\ MooreLive(g, i, j) = 3

\* Steps that are pending: unfired timers and queued step callbacks.
PendingSteps == Len(timers) + Len(SelectSeq(frames, LAMBDA f : f = "step"))

BlinkerVertical == {<<1, 0>>, <<1, 1>>, <<1, 2>>}
BlinkerHorizontal == {<<0, 1>>, <<1, 1>>, <<2, 1>>}

\* randomFiller and the constructor of the fixed-grid engine.
NextCtor == RandomFiller \/ New

SpecCtor == InitCtor /\ [][NextCtor]_vars

\* update() of the sparse engine on every small seed.
NextSparse == UpdateV2

SpecSparse == InitSparse /\ [][NextSparse]_vars

\* The page: its four handlers and the timers of its engines.
NextPage == RandomClick \/ FileLoad \/ StartClick \/ StopClick \/ TimeoutV2

SpecPage == InitPage /\ [][NextPage]_vars

(* ------------------------------ claims -------------------------------- *)

\* C1: after update() a cell is Alive exactly when, in the grid before the
\* call, it was Alive with 2 or 3 live Moore neighbours or Dead with exactly
\* 3 live Moore neighbours, for every grid and both topology modes.
C1_UpdateAppliesClassicRule ==
    [][lastOp' = "update" =>
          \A c \in Cells :
              (grid'[c[1]][c[2]] = alive) <=> ClassicRule(grid, c[1], c[2])]_vars

\* C2: in toroidal mode cell(i, j) returns the state of cell
\* (i mod W, j mod H), mod being floor-style, for every integer pair
\* including negative multiples of the width or height.
C2_TorusCellIsFloorMod ==
    (torus /\ lastOp = "cell") =>
        answer[3] = grid[FloorMod(answer[1], width)][FloorMod(answer[2], height)]

\* C3: between a stop() and the next start() no step callback runs, the grid
\* is not changed and no new step is scheduled.
C3_NoStepAfterStop ==
    [][(stopped /\ stopped') =>
          (lastOp' # "step" /\ grid' = grid /\ nextId' = nextId)]_vars

\* C4: at most one step is pending, counting unfired timers and queued
\* animation-frame callbacks that will run update().
C4_SingleFlight == PendingSteps <= 1

\* C5: a start() call that follows a start() call, with no stop() and no
\* completed step in between, leaves exactly one pending step and does not
\* change the grid.
C5_StartIdempotent ==
    [][(starts >= 1 /\ lastOp' = "start") =>
          (PendingSteps' = 1 /\ grid' = grid)]_vars

\* C6: stop() leaves the grid unchanged and the engine Idle with no pending
\* timer; called while Idle it changes nothing.
C6_StopCancels ==
    [][lastOp' = "stop" =>
          /\ grid' = grid
          /\ handler' = undefined
          /\ timers' = << >>
          /\ (handler = undefined => UNCHANGED <<loopVars, count>>)]_vars

\* C7: when a scheduled step fires on an engine that was never stopped, the
\* engine is Idle with nothing scheduled if the step's live count is 0, and
\* otherwise Running with exactly one next step scheduled.
C7_StepReschedulesUnlessExtinct ==
    [][(lastOp' = "step" /\ ~everStopped) =>
          /\ ~thrown'
          /\ IF count' = 0
             THEN handler' = undefined /\ PendingSteps' = 0
             ELSE handler' # undefined /\ PendingSteps' = 1]_vars

\* C8: update() returns the number of Alive cells of the grid it produced;
\* on an all-dead grid it leaves the grid all-dead and returns 0.
C8_UpdateReturnsLiveCount ==
    [][lastOp' = "update" =>
          /\ ~thrown'
          /\ count' = Cardinality(Live(grid'))
          /\ (Live(grid) = {} => (Live(grid') = {} /\ count' = 0))]_vars

\* C9: in bounded mode on a grid of at least 3 x 3 seeded with exactly
\* (1,0), (1,1), (1,2), one update() gives (0,1), (1,1), (2,1) and two
\* update() calls give the seed back.
C9_BlinkerOscillates ==
    (~torus /\ width >= 3 /\ height >= 3 /\ seed = BlinkerVertical) =>
        /\ (generation = 1 => Live(grid) = BlinkerHorizontal)
        /\ (generation = 2 => Live(grid) = BlinkerVertical)

C9_Witness ==
    /\ ~torus /\ width >= 3 /\ height >= 3
    /\ seed = BlinkerVertical
    /\ lastOp = "update"
    /\ generation = 2
    /\ Live(grid) = BlinkerVertical

\* C10: update() and cell() never fail: cell() returns Dead or Alive for
\* every integer coordinate and update() completes, on every grid of at
\* least 1 x 1 in both topology modes.
C10_NeverFails ==
    /\ ~thrown
    /\ (lastOp = "cell" => answer[3] \in {dead, alive})

\* The live cells (row, column) of a decoded pattern.
LivePattern(g) ==
    UNION {{<<r - 1, k - 1>> : k \in {k \in DOMAIN g[r] : g[r][k] = alive}} :
           r \in DOMAIN g}

\* The glider of the pattern format: x = 3, y = 3, body bo$2bo$3o!
Glider == loadRle(3, 3, <<"b", "o", "$", "2", "b", "o", "$", "3", "o", "!">>)

\* C11: for a well-formed body (runs <count><tag> with tag 'o' or 'b', rows
\* separated by '$', terminated by '!') that stays inside the declared
\* bounds, the cells of the decoded grid that are Alive are exactly those
\* covered by an 'o' run of length max(count, 1) starting at the cursor, 'b'
\* runs only advancing the cursor; the glider text decodes to the live
\* cells (x, y) = (1,0), (2,1), (0,2), (1,2), (2,2).
C11_DecodedLiveCells ==
    /\ (rle.phase = "returned" /\ ref.inside /\ ~ref.carried) =>
           LivePattern(rle.grid) = ref.live
    /\ Glider.phase = "returned"
    /\ LivePattern(Glider.grid) =
           {<<0, 1>>, <<1, 2>>, <<2, 0>>, <<2, 1>>, <<2, 2>>}

\* A returned pattern whose second row holds an 'o' run of two cells, the
\* text well-formed and inside the declared bounds.
C11_Witness ==
    /\ rle.phase = "returned" /\ ref.inside /\ ~ref.carried
    /\ {<<1, 0>>, <<1, 1>>} \subseteq ref.live
    /\ <<0, 0>> \notin ref.live

\* C12: an 'o' or 'b' tag advances the cursor by its own digits (or by 1),
\* never by a count that preceded a '$'.
C12_DollarDiscardsCount ==
    [][(rle'.phase = "body" /\ ref'.x > ref.x) =>
          rle'.x - rle.x = refRun(ref)]_vars

\* C13: the grid the decoder returns has exactly the declared y rows of
\* exactly the declared x columns each.
C13_DeclaredDimensions ==
    rle.phase = "returned" =>
        /\ Len(rle.grid) = rle.height
        /\ \A r \in DOMAIN rle.grid : Len(rle.grid[r]) = rle.width

\* C14: a text with a valid header that ends without '!' is decoded like one
\* ended by '!': the decoder returns its grid and rleFiller yields a filler.
C14_EndOfInputReturnsGrid ==
    ref.eof = "body" => (rle.phase = "returned" /\ fill.status # "TypeError")

\* C15: the centering offset of a filler is the one computed on its first
\* call, on every later call.
C15_OffsetFixedByFirstCall ==
    fill.call # << >> => <<fill.tranX[1], fill.tranY[1]>> = fill.first

\* C16: the filler returns true at (x + offsetX, y + offsetY) exactly when
\* cell (row y, column x) of the decoded grid is Alive, and false at every
\* coordinate that maps outside the pattern.
C16_FillerRoundTrip ==
    fill.call # << >> =>
        (fill.call[5] <=>
            <<fill.call[2] - fill.tranY[1], fill.call[1] - fill.tranX[1]>>
                \in LivePattern(fill.grid))

\* The cells of a constructed engine.
GridStates(c) == {c.grid[i][j] : i \in 0 .. (c.width - 1), j \in 0 .. (c.height - 1)}

\* C17: randomFiller(0) seeds an all-dead grid and randomFiller(1) an
\* all-live grid whatever Math.random() returns in [0, 1); randomFiller(p)
\* with p below 0 or above 1 raises and returns no predicate.
C17_RandomFillerExtremes ==
    /\ (ctor.status = "constructed" /\ ctor.filler.kind = "random"
            /\ ctor.filler.percentage = 0) => GridStates(ctor) \subseteq {dead}
    /\ (ctor.status = "constructed" /\ ctor.filler.kind = "random"
            /\ ctor.filler.percentage = RandomUnits) =>
           GridStates(ctor) \subseteq {alive}
    /\ (ctor.filler.kind # "undefined" /\ ctor.filler.percentage # NaN
            /\ (ctor.filler.percentage < 0
                    \/ ctor.filler.percentage > RandomUnits)) =>
           ctor.filler.kind = "RangeError"

\* An engine of more than one cell seeded by randomFiller(0).
C17_Witness ==
    /\ ctor.status = "constructed" /\ ctor.filler.kind = "random"
    /\ ctor.filler.percentage = 0
    /\ ctor.width * ctor.height > 1

\* C18: the constructor rejects every size that is not a finite number
\* above 0, 0 included, with RangeError 'Size should be in (0, oo)!', and
\* creates no grid.
C18_SizeZeroRejected ==
    (ctor.status # "none" /\ ctor.size.kind # "string"
        /\ ~(ctor.size.kind = "number" /\ ctor.size.value > 0)) =>
       /\ ctor.status = "RangeError: Size should be in (0, oo)!"
       /\ ctor.grid = << >>

\* The coordinates within one cell of a live cell.
Halo(L) == {<<c[1] + dx, c[2] + dy>> : c \in L, dx \in {0 - 1, 0, 1}, dy \in {0 - 1, 0, 1}}

\* The live cells after one step of the classic rule on the unbounded plane.
PlaneStep(L) ==
    {c \in Halo(L) :
        LET n == Cardinality({d \in Offsets : <<c[1] + d[1], c[2] + d[2]>> \in L})
        IN  (c \in L /\ n \in {2, 3}) \/ (c \notin L /\ n = 3)}

\* C19: every cell the classic rule makes Alive on the unbounded plane is
\* Alive after update() of the sparse engine, on the low and on the high
\* side of each axis.
C19_SparseStepCoversHalo ==
    [][sparse'.generation # sparse.generation =>
          PlaneStep(sparse.engine.cells) \subseteq sparse'.engine.cells]_vars

\* The engines of the page that are Running.
RunningGames == {g \in DOMAIN page.games : page.games[g].handler # undefined}

\* C20: at most one engine of the page is ever Running, and a click on Stop
\* while the current game is Running makes it Idle.
C20_OneEngineRunning ==
    /\ [](Cardinality(RunningGames) <= 1)
    /\ [][(page'.last = "stop" /\ page.last # "stop" /\ page.game # 0
             /\ page.game \in RunningGames) =>
               page'.games[page.game].handler = undefined]_vars

====
